---- MODULE Spec2Model ----
(***************************************************************************)
(* Model of the HEX territory server (src/server.js, lines 1-246): the     *)
(* in-memory world (players, map, scores, readyQueue, gameActive,          *)
(* scoreInterval), the socket handlers, the countdown and scoring timers,  *)
(* and the asynchronous calls to the tile store (select, upsert, delete).  *)
(*                                                                         *)
(* Every handler and timer callback runs to completion (one action each);  *)
(* an `await` splits a function into one action per resumption.  Timers    *)
(* count whole seconds: Second lets one second pass once every due timer   *)
(* has fired.  Client events and store replies are untimed: a reply may    *)
(* take arbitrarily long.                                                  *)
(***************************************************************************)
EXTENDS Integers, Sequences, FiniteSets, TLC

\* ---------------------------------------------------------------- config
\* Scaled-down values of the CONFIG block (server.js:14-18); the source has
\* MAP_RADIUS = 12, WIN_SCORE = 250000, CENTER_BONUS_DIST = 4.
MAP_RADIUS == 1
MIN_PLAYERS_TO_START == 2
WIN_SCORE == 1000
CENTER_BONUS_DIST == 0

\* Timer periods in seconds: SCORE_INTERVAL_MS, the reset timeout of endGame
\* and the countdown interval of startGameSequence.
ScoreSeconds == 5
ResetSeconds == 5
CountdownSeconds == 1

\* ---------------------------------------------------------------- bounds
\* Client events (connection, request_join, move, capture_click, disconnect)
\* are budgeted.  Timer and store steps are not budgeted.
NumClients == 2      \* connection identities
MaxEvents == 6       \* client events
MaxCountdowns == 2   \* countdown intervals alive at once
MaxBurst == 23       \* capture_click events one client sends back to back
DuelEvents == 8      \* client events of the specification SpecDuel
MaxRadius == 14      \* largest map radius the grid loops are run for
MaxClicks == 43      \* capture_click events of the specification SpecClicks

Ids == 1..NumClients

\* players .. scoreInterval are the globals of server.js.  scoreInterval is
\* "null", or tells whether the interval it refers to is "live" or "cleared".
\* scoreTimers: seconds to the next firing of each live scoring interval, in
\*   order of creation (the one scoreInterval refers to is the last).
\* countdowns: [count, rem] of each live countdown interval.
\* resetTimeouts: seconds left of each armed reset timeout of endGame.
\* awaiting: calls of initMap and endGame suspended at each await.
\* store, writeBacks: rows of the tile store, capture upserts in flight.
\* connected: sockets whose handlers are registered.  crashed: the process
\* has ended on an uncaught exception.  budget, last: bookkeeping of the
\* model (events left; the event handled last and its main broadcast).
\* radius is the constant MAP_RADIUS as the "Build Grid" loops read it.
\* clickers is history: for each tile, the teams whose clicks current_clicks
\* has counted since the counter was last 0.
VARIABLES players, map, scores, readyQueue, gameActive, scoreInterval,
          scoreTimers, countdowns, resetTimeouts, awaiting, store,
          writeBacks, connected, crashed, budget, last, clickers, radius

vars == <<players, map, scores, readyQueue, gameActive, scoreInterval,
          scoreTimers, countdowns, resetTimeouts, awaiting, store,
          writeBacks, connected, crashed, budget, last, clickers, radius>>

\* ---------------------------------------------------------------- helpers
Abs(x) == IF x < 0 THEN -x ELSE x
Max(a, b) == IF a > b THEN a ELSE b
Min(a, b) == IF a < b THEN a ELSE b

\* (|q| + |q+r| + |r|) / 2; the sum is always even.
getDistanceToCenter(q, r) == (Abs(q) + Abs(q + r) + Abs(r)) \div 2

Directions == {<<1, 0>>, <<1, -1>>, <<0, -1>>, <<-1, 0>>, <<-1, 1>>, <<0, 1>>}

getHexNeighbors(q, r) == {<<q + d[1], r + d[2]>> : d \in Directions}

\* The keys written by the two nested loops of initMap.
Grid ==
    {<<q, r>> \in (-MAP_RADIUS..MAP_RADIUS) \X (-MAP_RADIUS..MAP_RADIUS) :
        /\ r >= Max(-MAP_RADIUS, -q - MAP_RADIUS)
        /\ r <= Min(MAP_RADIUS, -q + MAP_RADIUS)}

RedBase == <<-MAP_RADIUS, 0>>
BlueBase == <<MAP_RADIUS, 0>>

\* The map right after "Build Grid" and "Bases".
FreshMap ==
    [k \in Grid |->
        [owner |-> IF k = RedBase THEN "red"
                   ELSE IF k = BlueBase THEN "blue" ELSE "grey",
         current_clicks |-> 0]]

EmptyMap == [k \in {} |-> [owner |-> "grey", current_clicks |-> 0]]

\* No click counted yet on any tile of map m.
NoClickers(m) == [k \in DOMAIN m |-> {}]

\* Rows of the tile store: "none" is a missing row.
EmptyStore == [k \in Grid |-> "none"]
SeededStore == [k \in Grid |-> FreshMap[k].owner]

\* data.forEach(t => ...): rows overlay the freshly built map.  The upserts
\* never write current_clicks, so a loaded row carries the column default 0.
LoadRows(m, data) ==
    [k \in DOMAIN m |->
        IF k \in DOMAIN data /\ data[k] # "none"
        THEN [owner |-> data[k], current_clicks |-> 0]
        ELSE m[k]]

HasRows(data) == \E k \in DOMAIN data : data[k] # "none"

\* Mutant: req rounded up (Math.ceil) instead of down.
RequiredCeil(dist, owner) ==
    LET req == Max(5, (50 - 3 * dist + 1) \div 2)
    IN IF owner # "grey" THEN (req * 17) \div 10 ELSE req

\* req of capture_click: max(5, floor(25 - 1.5*dist)), times 1.7 floored
\* when the tile is owned by a team.
Required(dist, owner) ==
    LET req == Max(5, (50 - 3 * dist) \div 2)
    IN IF owner # "grey" THEN (req * 17) \div 10 ELSE req

Spectator == [team |-> "spectator", q |-> 0, r |-> 0, status |-> "spectating"]
NoPlayers == [i \in {} |-> Spectator]

Playing(ps, team) ==
    {i \in DOMAIN ps : ps[i].status = "playing" /\ ps[i].team = team}

assignTeam(ps, socketId) ==
    IF socketId \notin DOMAIN ps THEN ps
    ELSE LET red == Cardinality(Playing(ps, "red"))
             blue == Cardinality(Playing(ps, "blue"))
             team == IF red > blue THEN "blue" ELSE "red"
             startQ == IF team = "red" THEN -MAP_RADIUS ELSE MAP_RADIUS
         IN [ps EXCEPT ![socketId] =
                [team |-> team, q |-> startQ, r |-> 0, status |-> "playing"]]

\* readyIds.forEach(id => assignTeam(id)), in insertion order.
RECURSIVE AssignAll(_, _)
AssignAll(ps, readyIds) ==
    IF readyIds = <<>> THEN ps
    ELSE AssignAll(assignTeam(ps, Head(readyIds)), Tail(readyIds))

\* Set.add / Set.delete on the insertion-ordered readyQueue.
InQueue(rq, id) == \E n \in 1..Len(rq) : rq[n] = id
QueueAdd(rq, id) == IF InQueue(rq, id) THEN rq ELSE Append(rq, id)
QueueDelete(rq, id) == SelectSeq(rq, LAMBDA x : x # id)

\* The event handled last and its main broadcast; the identity it came from
\* is not recorded.
Ev(ev, id, emit) == [ev |-> ev, emit |-> emit]
\* A client event is taken while budget is left, and costs 1.
CanSpend == budget > 0
Spend == budget' = budget - 1

\* ---------------------------------------------------------------- init
\* State after the module has been evaluated (with `events` client events to
\* come): initMap() has run up to its
\* first await (scores and map reset, select in flight); the store is empty
\* (first run).
InitWith(events) ==
    /\ players = NoPlayers
    /\ map = EmptyMap
    /\ scores = [red |-> 0, blue |-> 0]
    /\ readyQueue = <<>>
    /\ gameActive = FALSE
    /\ scoreInterval = "null"
    /\ scoreTimers = <<>>
    /\ countdowns = <<>>
    /\ resetTimeouts = <<>>
    /\ awaiting = [p \in {"boot_select", "boot_upsert", "delete",
                          "reset_select", "reset_upsert"} |->
                      IF p = "boot_select" THEN 1 ELSE 0]
    /\ store = EmptyStore
    /\ writeBacks = {}
    /\ connected = {}
    /\ crashed = FALSE
    /\ budget = events
    /\ last = Ev("init", 0, "none")
    /\ clickers = NoClickers(EmptyMap)
    /\ radius = MAP_RADIUS


\* ---------------------------------------------------------------- timers
Remove(seq, i) == SubSeq(seq, 1, i - 1) \o SubSeq(seq, i + 1, Len(seq))

\* clearInterval(scoreInterval) on the handle and the live scoring intervals.
ClearInterval(handle, live) ==
    IF handle = "live"
    THEN [handle |-> "cleared", live |-> SubSeq(live, 1, Len(live) - 1)]
    ELSE [handle |-> handle, live |-> live]

\* Mutant: startGameLoop without the clearInterval of the previous handle.
startGameLoopNoClear(handle, live) ==
    [handle |-> "live", live |-> Append(live, ScoreSeconds)]

\* startGameLoop: if (scoreInterval) clearInterval(scoreInterval);
\* scoreInterval = setInterval(..., SCORE_INTERVAL_MS).
startGameLoop(handle, live) ==
    LET c == IF handle # "null" THEN ClearInterval(handle, live)
             ELSE [handle |-> handle, live |-> live]
    IN [handle |-> "live", live |-> Append(c.live, ScoreSeconds)]

Countdowns == Len(countdowns)

\* Mutant: the bonus comparison turned around (dist >= CENTER_BONUS_DIST),
\* which gives the inner-tile points to every tile.
RECURSIVE GainBonusEverywhere(_, _, _)
GainBonusEverywhere(m, keys, team) ==
    IF keys = {} THEN 0
    ELSE LET key == CHOOSE k \in keys : TRUE
             tile == m[key]
             dist == getDistanceToCenter(key[1], key[2])
             points == IF dist >= CENTER_BONUS_DIST THEN 1000 ELSE 500
         IN (IF tile.owner = team THEN points ELSE 0)
            + GainBonusEverywhere(m, keys \ {key}, team)

\* The for..in loop of the scoring callback: points of every tile of `team`.
RECURSIVE Gain(_, _, _)
Gain(m, keys, team) ==
    IF keys = {} THEN 0
    ELSE LET key == CHOOSE k \in keys : TRUE
             tile == m[key]
             dist == getDistanceToCenter(key[1], key[2])
             points == IF dist <= CENTER_BONUS_DIST THEN 1000 ELSE 500
         IN (IF tile.owner = team THEN points ELSE 0)
            + Gain(m, keys \ {key}, team)

\* ---------------------------------------------------------------- sockets
\* socket.id is a fresh opaque string: the model takes the smallest identity
\* that is not connected.
Connect(id) ==
    /\ ~crashed
    /\ id \notin connected
    /\ CanSpend
    /\ Spend
    /\ \A j \in 1..(id - 1) : j \in connected
    /\ connected' = connected \cup {id}
    /\ players' = [i \in DOMAIN players \cup {id} |->
                      IF i = id THEN Spectator ELSE players[i]]
    /\ last' = Ev("connection", id, "none")
    /\ UNCHANGED <<map, clickers, scores, readyQueue, gameActive,
                   scoreInterval,
                   scoreTimers, countdowns, resetTimeouts, awaiting, store,
                   writeBacks, crashed, radius>>

\* startGameSequence up to setInterval: teams for the queue, queue cleared,
\* gameActive = false, a new countdown interval with count = 3.
startGameSequence(rq) ==
    /\ players' = AssignAll(players, rq)
    /\ readyQueue' = <<>>
    /\ gameActive' = FALSE
    /\ countdowns' = Append(countdowns, [count |-> 3, rem |-> CountdownSeconds])

\* What request_join sends: team_assigned when assignTeam got past its guard
\* for some identity, else the notification of its branch or nothing.
JoinEmit(queue, id) ==
    LET rq == QueueAdd(queue, id)
    IN IF Len(rq) < MIN_PLAYERS_TO_START /\ ~gameActive THEN "notification"
       ELSE IF ~gameActive
       THEN IF \E n \in 1..Len(rq) : rq[n] \in DOMAIN players
            THEN "team_assigned" ELSE "none"
       ELSE IF id \in DOMAIN players THEN "team_assigned" ELSE "notification"

RequestJoin(id) ==
    /\ ~crashed
    /\ id \in connected
    /\ CanSpend
    /\ LET rq == QueueAdd(readyQueue, id)
       IN IF Len(rq) < MIN_PLAYERS_TO_START /\ ~gameActive
          THEN /\ readyQueue' = rq
               /\ UNCHANGED <<players, gameActive, countdowns>>
          ELSE IF Len(rq) >= MIN_PLAYERS_TO_START /\ ~gameActive
          THEN /\ Countdowns < MaxCountdowns
               /\ startGameSequence(rq)
          ELSE /\ readyQueue' = rq
               /\ players' = assignTeam(players, id)
               /\ UNCHANGED <<gameActive, countdowns>>
    /\ Spend
    /\ last' = Ev("request_join", id, JoinEmit(readyQueue, id))
    /\ UNCHANGED <<map, clickers, scores, scoreInterval, scoreTimers, resetTimeouts,
                   awaiting, store, writeBacks, connected, crashed, radius>>

\* Mutant: the move handler without `!gameActive` in its first guard.
CanMoveAnyPhase(ps, m, active, id, q, r) ==
    /\ id \in DOMAIN ps
    /\ ps[id].status = "playing"
    /\ <<q, r>> \in DOMAIN m
    /\ <<q, r>> \in getHexNeighbors(ps[id].q, ps[id].r)
    /\ \/ \E n \in getHexNeighbors(q, r) :
              n \in DOMAIN m /\ m[n].owner = ps[id].team
       \/ m[<<q, r>>].owner = ps[id].team

\* Mutant: the move handler without the neighbors.includes(key) check.
CanMoveAnywhere(ps, m, active, id, q, r) ==
    /\ id \in DOMAIN ps
    /\ ps[id].status = "playing"
    /\ active
    /\ <<q, r>> \in DOMAIN m
    /\ \/ \E n \in getHexNeighbors(q, r) :
              n \in DOMAIN m /\ m[n].owner = ps[id].team
       \/ m[<<q, r>>].owner = ps[id].team

\* The checks of the move handler, in order.
CanMove(ps, m, active, id, q, r) ==
    /\ id \in DOMAIN ps
    /\ ps[id].status = "playing"
    /\ active
    /\ <<q, r>> \in DOMAIN m
    /\ <<q, r>> \in getHexNeighbors(ps[id].q, ps[id].r)
    /\ \/ \E n \in getHexNeighbors(q, r) :
              n \in DOMAIN m /\ m[n].owner = ps[id].team
       \/ m[<<q, r>>].owner = ps[id].team

Move(id, q, r) ==
    /\ ~crashed
    /\ id \in connected
    /\ CanSpend
    /\ IF CanMove(players, map, gameActive, id, q, r)
       THEN players' = [players EXCEPT ![id].q = q, ![id].r = r]
       ELSE UNCHANGED players
    /\ Spend
    /\ last' = Ev("move", id, "none")
    /\ UNCHANGED <<map, clickers, scores, readyQueue, gameActive,
                   scoreInterval,
                   scoreTimers, countdowns, resetTimeouts, awaiting, store,
                   writeBacks, connected, crashed, radius>>

\* The first guard of the capture_click handler.
CanClick(ps, active, id) ==
    /\ id \in DOMAIN ps
    /\ ps[id].status = "playing"
    /\ active

\* Mutant: the capture_click handler without `tile.current_clicks = 0` on a
\* completed capture.
captureClickKeepsCount(st, ps, active, id) ==
    IF st.crashed \/ ~CanClick(ps, active, id) THEN st
    ELSE LET p == ps[id]
             key == <<p.q, p.r>>
         IN IF key \notin DOMAIN st.map THEN [st EXCEPT !.crashed = TRUE]
            ELSE LET tile == st.map[key]
                     req == Required(getDistanceToCenter(key[1], key[2]),
                                     tile.owner)
                 IN IF tile.owner = p.team THEN st
                    ELSE IF tile.current_clicks + 1 >= req
                    THEN [st EXCEPT
                            !.map[key] = [owner |-> p.team,
                                          current_clicks |->
                                              tile.current_clicks + 1],
                            !.clickers[key] = @ \cup {p.team},
                            !.writeBacks = @ \cup {<<key, p.team>>}]
                    ELSE [st EXCEPT !.map[key].current_clicks = @ + 1,
                                    !.clickers[key] = @ \cup {p.team}]

\* Mutant: the capture_click handler that compares with `>` instead of `>=`.
captureClickLate(st, ps, active, id) ==
    IF st.crashed \/ ~CanClick(ps, active, id) THEN st
    ELSE LET p == ps[id]
             key == <<p.q, p.r>>
         IN IF key \notin DOMAIN st.map THEN [st EXCEPT !.crashed = TRUE]
            ELSE LET tile == st.map[key]
                     req == Required(getDistanceToCenter(key[1], key[2]),
                                     tile.owner)
                 IN IF tile.owner = p.team THEN st
                    ELSE IF tile.current_clicks + 1 > req
                    THEN [st EXCEPT
                            !.map[key] = [owner |-> p.team,
                                          current_clicks |-> 0],
                            !.clickers[key] = {},
                            !.writeBacks = @ \cup {<<key, p.team>>}]
                    ELSE [st EXCEPT !.map[key].current_clicks = @ + 1,
                                    !.clickers[key] = @ \cup {p.team}]

\* One run of the capture_click handler on st = [map, clickers, writeBacks,
\* crashed].
\* map[`${p.q},${p.r}`] of a key that is not in the map is undefined and
\* tile.owner throws: the uncaught TypeError ends the process.
captureClick(st, ps, active, id) ==
    IF st.crashed \/ ~CanClick(ps, active, id) THEN st
    ELSE LET p == ps[id]
             key == <<p.q, p.r>>
         IN IF key \notin DOMAIN st.map THEN [st EXCEPT !.crashed = TRUE]
            ELSE LET tile == st.map[key]
                     req == Required(getDistanceToCenter(key[1], key[2]),
                                     tile.owner)
                 IN IF tile.owner = p.team THEN st
                    ELSE IF tile.current_clicks + 1 >= req
                    THEN [st EXCEPT
                            !.map[key] = [owner |-> p.team,
                                          current_clicks |-> 0],
                            !.clickers[key] = {},
                            !.writeBacks = @ \cup {<<key, p.team>>}]
                    ELSE [st EXCEPT !.map[key].current_clicks = @ + 1,
                                    !.clickers[key] = @ \cup {p.team}]

RECURSIVE Clicks(_, _, _, _, _)
Clicks(st, ps, active, id, n) ==
    IF n = 0 THEN st
    ELSE Clicks(captureClick(st, ps, active, id), ps, active, id, n - 1)

\* n capture_click events of one client, handled one after the other.
CaptureClick(id, n) ==
    /\ ~crashed
    /\ id \in connected
    /\ CanSpend
    /\ Spend
    /\ LET st == Clicks([map |-> map, clickers |-> clickers,
                         writeBacks |-> writeBacks, crashed |-> FALSE],
                        players, gameActive, id, n)
       IN /\ map' = st.map
          /\ clickers' = st.clickers
          /\ writeBacks' = st.writeBacks
          /\ crashed' = st.crashed
          /\ UNCHANGED radius
    /\ last' = Ev("capture_click", id, "none")
    /\ UNCHANGED <<players, scores, readyQueue, gameActive, scoreInterval,
                   scoreTimers, countdowns, resetTimeouts, awaiting, store,
                   connected>>

\* Mutant: the disconnect handler with readyQueue.clear() for
\* readyQueue.delete(socket.id).
DisconnectClearsQueue(id) ==
    /\ ~crashed
    /\ id \in connected
    /\ CanSpend
    /\ Spend
    /\ connected' = connected \ {id}
    /\ players' = [i \in DOMAIN players \ {id} |-> players[i]]
    /\ readyQueue' = <<>>
    /\ last' = Ev("disconnect", id, "none")
    /\ UNCHANGED <<map, clickers, scores, gameActive, scoreInterval, scoreTimers,
                   countdowns, resetTimeouts, awaiting, store, writeBacks,
                   crashed, radius>>

Disconnect(id) ==
    /\ ~crashed
    /\ id \in connected
    /\ CanSpend
    /\ Spend
    /\ connected' = connected \ {id}
    /\ players' = [i \in DOMAIN players \ {id} |-> players[i]]
    /\ readyQueue' = QueueDelete(readyQueue, id)
    /\ last' = Ev("disconnect", id, "none")
    /\ UNCHANGED <<map, clickers, scores, gameActive, scoreInterval, scoreTimers,
                   countdowns, resetTimeouts, awaiting, store, writeBacks,
                   crashed, radius>>


\* ---------------------------------------------------------------- timers
\* io.emit('countdown', count), as text.
CountText == [c \in 1..3 |-> IF c = 3 THEN "3" ELSE IF c = 2 THEN "2" ELSE "1"]

\* One firing of the i-th countdown interval.
CountdownTick(i) ==
    /\ ~crashed
    /\ i \in 1..Len(countdowns)
    /\ countdowns[i].rem = 0
    /\ IF countdowns[i].count > 0
       THEN /\ countdowns' = [countdowns EXCEPT
                                ![i] = [count |-> @.count - 1,
                                        rem |-> CountdownSeconds]]
            /\ last' = Ev("countdown", 0, CountText[countdowns[i].count])
            /\ UNCHANGED <<gameActive, scoreInterval, scoreTimers>>
       ELSE LET loop == startGameLoop(scoreInterval, scoreTimers)
            IN /\ countdowns' = Remove(countdowns, i)
               /\ gameActive' = TRUE
               /\ scoreInterval' = loop.handle
               /\ scoreTimers' = loop.live
               /\ last' = Ev("countdown", 0, "GO!")
    /\ UNCHANGED <<players, map, clickers, scores, readyQueue, resetTimeouts, awaiting,
                   store, writeBacks, connected, crashed, radius, budget>>

\* The win test of the scoring callback.
Won(sc) == sc.red >= WIN_SCORE \/ sc.blue >= WIN_SCORE

\* One firing of the i-th live scoring interval, which is armed again;
\* endGame runs up to its first await.
ScoreTick(i) ==
    /\ ~crashed
    /\ i \in 1..Len(scoreTimers)
    /\ scoreTimers[i] = 0
    /\ LET again == [scoreTimers EXCEPT ![i] = ScoreSeconds]
       IN IF ~gameActive
          THEN /\ scoreTimers' = again
               /\ last' = Ev("score_tick", 0, "none")
               /\ UNCHANGED <<scores, gameActive, scoreInterval, awaiting>>
          ELSE LET sc == [red |-> scores.red + Gain(map, DOMAIN map, "red"),
                          blue |-> scores.blue
                                   + Gain(map, DOMAIN map, "blue")]
                   off == ClearInterval(scoreInterval, again)
               IN /\ scores' = sc
                  /\ IF Won(sc)
                     THEN /\ gameActive' = FALSE
                          /\ scoreInterval' = off.handle
                          /\ scoreTimers' = off.live
                          /\ awaiting' = [awaiting EXCEPT !["delete"] = @ + 1]
                          /\ last' = Ev("score_tick", 0, "game_over")
                     ELSE /\ scoreTimers' = again
                          /\ last' = Ev("score_tick", 0, "score_update")
                          /\ UNCHANGED <<gameActive, scoreInterval, awaiting>>
    /\ UNCHANGED <<players, map, clickers, readyQueue, countdowns, resetTimeouts, store,
                   writeBacks, connected, crashed, radius, budget>>

\* One second passes: no timer is due, and every timer is one second closer.
Second ==
    /\ ~crashed
    /\ Len(countdowns) + Len(scoreTimers) + Len(resetTimeouts) > 0
    /\ \A i \in 1..Len(countdowns) : countdowns[i].rem > 0
    /\ \A i \in 1..Len(scoreTimers) : scoreTimers[i] > 0
    /\ \A i \in 1..Len(resetTimeouts) : resetTimeouts[i] > 0
    /\ countdowns' = [i \in 1..Len(countdowns) |->
                        [countdowns[i] EXCEPT !.rem = @ - 1]]
    /\ scoreTimers' = [i \in 1..Len(scoreTimers) |-> scoreTimers[i] - 1]
    /\ resetTimeouts' = [i \in 1..Len(resetTimeouts) |-> resetTimeouts[i] - 1]
    /\ last' = Ev("second", 0, "none")
    /\ UNCHANGED <<players, map, clickers, scores, readyQueue, gameActive,
                   scoreInterval, awaiting, store, writeBacks, connected,
                   crashed, radius, budget>>

\* ---------------------------------------------------------------- store
\* endGame resumes after `await ...delete()`: the rows are gone (ok) or the
\* call failed; either way the 5 s reset timeout is armed.

\* Mutant: endGame that also zeroes the scores when it resumes after the
\* delete.
DeleteDoneZeroesScores(ok) ==
    /\ ~crashed
    /\ awaiting["delete"] > 0
    /\ store' = IF ok THEN EmptyStore ELSE store
    /\ awaiting' = [awaiting EXCEPT !["delete"] = @ - 1]
    /\ resetTimeouts' = Append(resetTimeouts, ResetSeconds)
    /\ scores' = [red |-> 0, blue |-> 0]
    /\ last' = Ev("delete_done", 0, "none")
    /\ UNCHANGED <<players, map, clickers, readyQueue, gameActive,
                   scoreInterval, scoreTimers, countdowns, writeBacks,
                   connected, crashed, radius, budget>>

DeleteDone(ok) ==
    /\ ~crashed
    /\ awaiting["delete"] > 0
    /\ store' = IF ok THEN EmptyStore ELSE store
    /\ awaiting' = [awaiting EXCEPT !["delete"] = @ - 1]
    /\ resetTimeouts' = Append(resetTimeouts, ResetSeconds)
    /\ last' = Ev("delete_done", 0, "none")
    /\ UNCHANGED <<players, map, clickers, scores, readyQueue, gameActive,
                   scoreInterval, scoreTimers, countdowns, writeBacks,
                   connected, crashed, radius, budget>>

\* The reset timeout fires: initMap runs up to `await ...select('*')`.
ResetTimeout ==
    /\ ~crashed
    /\ resetTimeouts # <<>>
    /\ Head(resetTimeouts) = 0
    /\ resetTimeouts' = Tail(resetTimeouts)
    /\ scores' = [red |-> 0, blue |-> 0]
    /\ map' = EmptyMap
    /\ clickers' = NoClickers(EmptyMap)
    /\ awaiting' = [awaiting EXCEPT !["reset_select"] = @ + 1]
    /\ last' = Ev("reset_timeout", 0, "none")
    /\ UNCHANGED <<players, readyQueue, gameActive, scoreInterval,
                   scoreTimers, countdowns, store, writeBacks, connected,
                   crashed, radius, budget>>

\* The rest of the timeout callback once initMap has returned.
AfterInitMap(caller) ==
    IF caller = "reset"
    THEN /\ players' = NoPlayers
         /\ readyQueue' = <<>>
    ELSE UNCHANGED <<players, readyQueue>>

EmitAfterInitMap(caller) == IF caller = "reset" THEN "reset_game" ELSE "none"

\* initMap resumes after the select: grid and bases are built, then the rows
\* are loaded, or (no rows, or a failed select: data is null) the store is
\* seeded with an awaited upsert.
SelectDone(caller, ok) ==
    /\ ~crashed
    /\ caller \in {"boot", "reset"}
    /\ awaiting[caller \o "_select"] > 0
    /\ clickers' = NoClickers(FreshMap)
    /\ IF ok /\ HasRows(store)
       THEN /\ map' = LoadRows(FreshMap, store)
            /\ awaiting' = [awaiting EXCEPT ![caller \o "_select"] = @ - 1]
            /\ AfterInitMap(caller)
            /\ last' = Ev("select_done", 0, EmitAfterInitMap(caller))
       ELSE /\ map' = FreshMap
            /\ awaiting' = [awaiting EXCEPT ![caller \o "_select"] = @ - 1,
                                            ![caller \o "_upsert"] = @ + 1]
            /\ last' = Ev("select_done", 0, "none")
            /\ UNCHANGED <<players, readyQueue>>
    /\ UNCHANGED <<scores, gameActive, scoreInterval, scoreTimers,
                   countdowns, resetTimeouts, store, writeBacks, connected,
                   crashed, radius, budget>>

\* initMap resumes after the seeding upsert of every row of the fresh map.
UpsertDone(caller, ok) ==
    /\ ~crashed
    /\ caller \in {"boot", "reset"}
    /\ awaiting[caller \o "_upsert"] > 0
    /\ store' = IF ok THEN SeededStore ELSE store
    /\ awaiting' = [awaiting EXCEPT ![caller \o "_upsert"] = @ - 1]
    /\ AfterInitMap(caller)
    /\ last' = Ev("upsert_done", 0, EmitAfterInitMap(caller))
    /\ UNCHANGED <<map, clickers, scores, gameActive, scoreInterval, scoreTimers,
                   countdowns, resetTimeouts, writeBacks, connected, crashed, radius,
                   budget>>

\* A fire-and-forget capture upsert reaches the store, or is lost.
WriteBackDone(w, ok) ==
    /\ ~crashed
    /\ w \in writeBacks
    /\ writeBacks' = writeBacks \ {w}
    /\ store' = IF ok THEN [store EXCEPT ![w[1]] = w[2]] ELSE store
    /\ last' = Ev("write_back", 0, "none")
    /\ UNCHANGED <<players, map, clickers, scores, readyQueue, gameActive,
                   scoreInterval, scoreTimers, countdowns, resetTimeouts,
                   awaiting, connected, crashed, radius, budget>>

\* ---------------------------------------------------------------- spec
\* Move targets a client may name: every tile, and one coordinate off the map.
Targets == Grid \cup {<<MAP_RADIUS + 1, 0>>}

Next ==
    \/ \E id \in Ids : Connect(id)
    \/ \E id \in Ids : RequestJoin(id)
    \/ \E id \in Ids, t \in Targets : Move(id, t[1], t[2])
    \/ \E id \in Ids, n \in {1, MaxBurst} : CaptureClick(id, n)
    \/ \E id \in Ids : Disconnect(id)
    \/ \E i \in 1..Len(countdowns) : CountdownTick(i)
    \/ \E i \in 1..Len(scoreTimers) : ScoreTick(i)
    \/ Second
    \/ \E ok \in BOOLEAN : DeleteDone(ok)
    \/ ResetTimeout
    \/ \E caller \in {"boot", "reset"}, ok \in BOOLEAN : SelectDone(caller, ok)
    \/ \E caller \in {"boot", "reset"}, ok \in BOOLEAN : UpsertDone(caller, ok)
    \/ \E w \in writeBacks, ok \in BOOLEAN : WriteBackDone(w, ok)

Init == InitWith(MaxEvents)

Spec == Init /\ [][Next]_vars

\* One match with more client events: no disconnects, no store failures, and
\* no scoring tick (the first is due 5 s after GO).
InitDuel == InitWith(DuelEvents)

NextDuel ==
    \/ \E id \in Ids : Connect(id)
    \/ \E id \in Ids : RequestJoin(id)
    \/ \E id \in Ids, t \in Targets : Move(id, t[1], t[2])
    \/ \E id \in Ids, n \in {1, MaxBurst} : CaptureClick(id, n)
    \/ \E i \in 1..Len(countdowns) : CountdownTick(i)
    \/ Second
    \/ SelectDone("boot", TRUE)
    \/ UpsertDone("boot", TRUE)
    \/ \E w \in writeBacks : WriteBackDone(w, TRUE)

SpecDuel == InitDuel /\ [][NextDuel]_vars


\* A match at the moment after "GO!", two players on their bases, for every
\* ownership of the tiles that captures can produce: a capture gives a tile
\* to a team and never back to grey, so the two bases are always owned.
OwnedMaps ==
    {m \in [Grid -> [owner : {"grey", "red", "blue"}, current_clicks : {0}]] :
        m[RedBase].owner # "grey" /\ m[BlueBase].owner # "grey"}

InitIncome ==
    /\ map \in OwnedMaps
    /\ clickers = NoClickers(FreshMap)
    /\ players = [i \in 1..2 |->
                    IF i = 1
                    THEN [team |-> "red", q |-> RedBase[1], r |-> RedBase[2],
                          status |-> "playing"]
                    ELSE [team |-> "blue", q |-> BlueBase[1],
                          r |-> BlueBase[2], status |-> "playing"]]
    /\ scores = [red |-> 0, blue |-> 0]
    /\ readyQueue = <<>>
    /\ gameActive = TRUE
    /\ scoreInterval = "live"
    /\ scoreTimers = <<ScoreSeconds>>
    /\ countdowns = <<>>
    /\ resetTimeouts = <<>>
    /\ awaiting = [p \in {"boot_select", "boot_upsert", "delete",
                          "reset_select", "reset_upsert"} |-> 0]
    /\ store = SeededStore
    /\ writeBacks = {}
    /\ connected = 1..2
    /\ crashed = FALSE
    /\ budget = 0
    /\ last = Ev("countdown", 0, "GO!")
    /\ radius = MAP_RADIUS

NextIncome ==
    \/ \E i \in 1..2 : ScoreTick(i)
    \/ Second

SpecIncome == InitIncome /\ [][NextIncome]_vars

\* The "Build Grid" loops of initMap, one tile per step, for a radius drawn
\* from 1..MaxRadius and a store without rows.

\* Mutant: r1 without the hexagon's corner cut.
LoopR1Square(R, q) == -R

\* let r1 = Math.max(-MAP_RADIUS, -q - MAP_RADIUS)
LoopR1(R, q) == Max(-R, -q - R)

\* let r2 = Math.min(MAP_RADIUS, -q + MAP_RADIUS)
LoopR2(R, q) == Min(R, -q + R)

\* The key written last: the loops write the keys in the order of (q, r).
LastKey(m) ==
    LET qs == {k[1] : k \in DOMAIN m}
        q == CHOOSE x \in qs : \A y \in qs : y <= x
        rs == {k[2] : k \in {j \in DOMAIN m : j[1] = q}}
    IN <<q, CHOOSE x \in rs : \A y \in rs : y <= x>>

\* The values of the loop variables (q, r) at the next run of the loop body;
\* q = R + 1 when the outer loop has ended.
NextKey(R, m) ==
    IF DOMAIN m = {} THEN <<-R, LoopR1(R, -R)>>
    ELSE LET k == LastKey(m)
         IN IF k[2] < LoopR2(R, k[1]) THEN <<k[1], k[2] + 1>>
            ELSE IF k[1] < R THEN <<k[1] + 1, LoopR1(R, k[1] + 1)>>
            ELSE <<R + 1, 0>>

\* initMap has resumed after a select that returned no rows.
InitGrid ==
    /\ radius \in 1..MaxRadius
    /\ players = NoPlayers
    /\ map = EmptyMap
    /\ clickers = NoClickers(EmptyMap)
    /\ scores = [red |-> 0, blue |-> 0]
    /\ readyQueue = <<>>
    /\ gameActive = FALSE
    /\ scoreInterval = "null"
    /\ scoreTimers = <<>>
    /\ countdowns = <<>>
    /\ resetTimeouts = <<>>
    /\ awaiting = [p \in {"boot_select", "boot_upsert", "delete",
                          "reset_select", "reset_upsert"} |-> 0]
    /\ store = EmptyStore
    /\ writeBacks = {}
    /\ connected = {}
    /\ crashed = FALSE
    /\ budget = 0
    /\ last = Ev("select_done", 0, "none")

\* One run of the inner loop body: map[`${q},${r}`] = {q, r, 'grey', 0}.
BuildTile ==
    /\ last.ev \in {"select_done", "build_tile"}
    /\ LET k == NextKey(radius, map)
       IN /\ k[1] <= radius
          /\ map' = (k :> [owner |-> "grey", current_clicks |-> 0]) @@ map
          /\ clickers' = (k :> {}) @@ clickers
    /\ last' = Ev("build_tile", 0, "none")
    /\ UNCHANGED <<players, scores, readyQueue, gameActive, scoreInterval,
                   scoreTimers, countdowns, resetTimeouts, awaiting, store,
                   writeBacks, connected, crashed, budget, radius>>

\* "Bases", after the loops have ended.
BuildBases ==
    /\ last.ev = "build_tile"
    /\ NextKey(radius, map)[1] > radius
    /\ map' = [map EXCEPT ![<<-radius, 0>>].owner = "red",
                         ![<<radius, 0>>].owner = "blue"]
    /\ last' = Ev("bases", 0, "none")
    /\ UNCHANGED <<players, clickers, scores, readyQueue, gameActive,
                   scoreInterval, scoreTimers, countdowns, resetTimeouts,
                   awaiting, store, writeBacks, connected, crashed, budget,
                   radius>>

NextGrid ==
    \/ BuildTile
    \/ BuildBases

SpecGrid == InitGrid /\ [][NextGrid]_vars

\* A match in Active phase on the map of radius MaxRadius: the red player
\* stands on the tile (0, -d), which is neutral or was captured by blue, and
\* clicks.
GridOf(R) ==
    {k \in (-R..R) \X (-R..R) :
        k[2] >= LoopR1(R, k[1]) /\ k[2] <= LoopR2(R, k[1])}

MapWith(R, at, owner) ==
    [k \in GridOf(R) |->
        [owner |-> IF k = at THEN owner
                   ELSE IF k = <<-R, 0>> THEN "red"
                   ELSE IF k = <<R, 0>> THEN "blue" ELSE "grey",
         current_clicks |-> 0]]

InitClicks ==
    /\ radius = MaxRadius
    /\ \E d \in 0..MaxRadius, owner \in {"grey", "blue"} :
         /\ map = MapWith(radius, <<0, -d>>, owner)
         /\ store = [k \in GridOf(radius) |-> map[k].owner]
         /\ players = [i \in 1..2 |->
                         IF i = 1
                         THEN [team |-> "red", q |-> 0, r |-> -d,
                               status |-> "playing"]
                         ELSE [team |-> "blue", q |-> radius, r |-> 0,
                               status |-> "playing"]]
    /\ clickers = NoClickers(map)
    /\ scores = [red |-> 0, blue |-> 0]
    /\ readyQueue = <<>>
    /\ gameActive = TRUE
    /\ scoreInterval = "live"
    /\ scoreTimers = <<ScoreSeconds>>
    /\ countdowns = <<>>
    /\ resetTimeouts = <<>>
    /\ awaiting = [p \in {"boot_select", "boot_upsert", "delete",
                          "reset_select", "reset_upsert"} |-> 0]
    /\ writeBacks = {}
    /\ connected = 1..2
    /\ crashed = FALSE
    /\ budget = MaxClicks
    /\ last = Ev("move", 1, "player_moved")

NextClicks == CaptureClick(1, 1)

SpecClicks == InitClicks /\ [][NextClicks]_vars

\* ---------------------------------------------------------------- claims
Imbalance(ps) ==
    Abs(Cardinality(Playing(ps, "red")) - Cardinality(Playing(ps, "blue")))

HexDistance(a, b) ==
    (Abs(a[1] - b[1]) + Abs(a[1] + a[2] - b[1] - b[2]) + Abs(a[2] - b[2])) \div 2

SamePositions(ps, qs) ==
    /\ DOMAIN ps = DOMAIN qs
    /\ \A id \in DOMAIN ps : ps[id].q = qs[id].q /\ ps[id].r = qs[id].r

PendingResets ==
    awaiting["delete"] + Len(resetTimeouts) + awaiting["reset_select"]
    + awaiting["reset_upsert"]

\* C1: while gameActive is false, a move or capture_click event leaves the
\* tile map and every player position unchanged.
C1_InactiveRejects ==
    [][(~gameActive /\ last'.ev \in {"move", "capture_click"})
         => (map' = map /\ SamePositions(players, players'))]_vars

\* C1 witness: a move or capture_click was handled while the phase was not
\* Active, sent while a playing player stood on a loaded map.
C1_Witness ==
    /\ last.ev \in {"move", "capture_click"}
    /\ ~gameActive
    /\ DOMAIN map = Grid
    /\ \E id \in DOMAIN players : players[id].status = "playing"

\* C2: a move event changes nothing but the position of one player, and that
\* only when the player is playing, the phase is Active, the new position is
\* an existing tile at hex distance 1 from the old one, and that tile is
\* owned by the player's team or has a neighbouring tile owned by it.
C2_MoveFrame ==
    [][last'.ev = "move" =>
         /\ UNCHANGED <<map, clickers, scores, readyQueue, gameActive,
                   scoreInterval,
                        scoreTimers, countdowns, resetTimeouts, awaiting,
                        store, writeBacks, connected, crashed>>
         /\ \/ players' = players
            \/ \E id \in DOMAIN players :
                 LET p == players[id]
                     t == <<players'[id].q, players'[id].r>>
                 IN /\ players' = [players EXCEPT ![id].q = t[1],
                                                  ![id].r = t[2]]
                    /\ p.status = "playing"
                    /\ gameActive
                    /\ t \in DOMAIN map
                    /\ HexDistance(<<p.q, p.r>>, t) = 1
                    /\ \/ map[t].owner = p.team
                       \/ \E n \in DOMAIN map :
                            HexDistance(n, t) = 1 /\ map[n].owner = p.team
      ]_vars

\* C2 witness: the client events so far were two connections, two joins and
\* a move that took a playing player off its base.
C2_Witness ==
    /\ last.ev = "move"
    /\ budget = MaxEvents - 5
    /\ \E id \in DOMAIN players :
         /\ players[id].status = "playing"
         /\ <<players[id].q, players[id].r>> \notin {RedBase, BlueBase}

\* C3 (as stated): after every team assignment the playing red and blue
\* members differ by at most 1.
C3_BalancedAfterAssign ==
    last.emit = "team_assigned" => Imbalance(players) <= 1

\* C4 (as stated): when reset_game is broadcast every tile has 0 clicks, the
\* bases are owned by their teams, every other tile is neutral and the
\* scores are {0,0}.
C4_ResetIsFresh ==
    last.emit = "reset_game" =>
        (map = FreshMap /\ scores = [red |-> 0, blue |-> 0])

\* C5 (as stated): game_over is emitted only by a scoring tick that leaves a
\* score at or above WIN_SCORE, and at most one game-over reset is pending
\* until the scores are reset.
C5_OneGameOver ==
    /\ last.emit = "game_over" => (last.ev = "score_tick" /\ Won(scores))
    /\ awaiting["delete"] + Len(resetTimeouts) <= 1

\* C6 (as stated): a request_join that brings the queue to
\* MIN_PLAYERS_TO_START while the phase is not Active starts a countdown,
\* empties the queue and leaves every queued identity playing in team red
\* or blue; with fewer identities no countdown starts and no team is given.
C6_QueueStartsMatch ==
    [][\A id \in Ids :
         (RequestJoin(id) /\ ~gameActive) =>
            LET rq == QueueAdd(readyQueue, id)
            IN IF Len(rq) >= MIN_PLAYERS_TO_START
               THEN /\ Len(countdowns') = Len(countdowns) + 1
                    /\ readyQueue' = <<>>
                    /\ \A n \in 1..Len(rq) :
                         /\ rq[n] \in DOMAIN players'
                         /\ players'[rq[n]].status = "playing"
                         /\ players'[rq[n]].team \in {"red", "blue"}
               ELSE countdowns' = countdowns /\ players' = players
      ]_vars

\* C7 (as stated): the roster holds exactly one Player for every connected
\* identity and nothing else.
C7_RosterIsConnected == DOMAIN players = connected

\* C8 (as stated): at most one countdown interval is live.
C8_OneCountdown == Countdowns <= 1

\* C9: at most one scoring interval is live, and it is the one scoreInterval
\* refers to.
C9_OneScoreTimer ==
    /\ Len(scoreTimers) <= 1
    /\ Len(scoreTimers) = 1 => scoreInterval = "live"

\* C9 witness: two clients connected and sent four joins, the second
\* countdown was started before the first reached GO, and both have now
\* restarted the scoring loop of the same match.
C9_Witness ==
    /\ last.emit = "GO!"
    /\ Countdowns = 0
    /\ budget = MaxEvents - 6
    /\ PendingResets = 0
    /\ Len(scoreTimers) = 1
    /\ \E id \in DOMAIN players : players[id].status = "playing"

\* C10 (as stated): from the start of a countdown to its GO the phase is not
\* Active (move and capture_click are rejected), and the phase becomes
\* Active only at a GO tick.
C10_FrozenUntilGo ==
    /\ Countdowns > 0 => ~gameActive
    /\ gameActive => scoreInterval # "null"

\* C11 (as stated): the ready queue holds only identities that have not been
\* assigned a team: no queued identity is playing.
C11_QueueUnassigned ==
    \A n \in 1..Len(readyQueue) :
        readyQueue[n] \in DOMAIN players
            => players[readyQueue[n]].status # "playing"

Queued(rq) == {rq[n] : n \in 1..Len(rq)}

\* C12: a disconnect removes the sender from the roster and from the ready
\* queue and changes nothing else: phase, map, scores, the other players,
\* the other queued identities and all timers stay as they are.
C12_DisconnectFrame ==
    [][last'.ev = "disconnect" =>
         /\ UNCHANGED <<map, clickers, scores, gameActive, scoreInterval, scoreTimers,
                        countdowns, resetTimeouts, awaiting, store,
                        writeBacks, crashed>>
         /\ \E id \in connected :
              /\ connected' = connected \ {id}
              /\ DOMAIN players' = DOMAIN players \ {id}
              /\ \A j \in DOMAIN players' : players'[j] = players[j]
              /\ Queued(readyQueue') = Queued(readyQueue) \ {id}
              /\ Len(readyQueue') = Cardinality(Queued(readyQueue'))
      ]_vars

\* C12 witness: a player has disconnected in Active phase while the scoring
\* interval runs and the other player keeps playing.
C12_Witness ==
    /\ last.ev = "disconnect"
    /\ gameActive
    /\ Len(scoreTimers) = 1
    /\ Cardinality(connected) = 1
    /\ \E id \in DOMAIN players : players[id].status = "playing"

\* The capture_click of identity id is accepted on tile k: the sender is
\* playing in Active phase and stands on k, which its team does not own.
AcceptedOn(id, k) ==
    /\ CanClick(players, gameActive, id)
    /\ k = <<players[id].q, players[id].r>>
    /\ k \in DOMAIN map
    /\ map[k].owner # players[id].team

\* C13: progress counters are never negative; a step that changes a tile's
\* owner leaves its counter at 0; one capture_click leaves every tile whose
\* owner it does not change with the same counter, or with the counter
\* raised by exactly 1 when the click was accepted on that tile.
C13_ProgressClicks ==
    [][/\ \A k \in DOMAIN map' : map'[k].current_clicks >= 0
       /\ \A k \in DOMAIN map \cap DOMAIN map' :
            map'[k].owner # map[k].owner => map'[k].current_clicks = 0
       /\ \A id \in Ids :
            CaptureClick(id, 1) =>
                /\ DOMAIN map' = DOMAIN map
                /\ \A k \in DOMAIN map :
                     map'[k].owner = map[k].owner =>
                         map'[k].current_clicks =
                             IF AcceptedOn(id, k)
                             THEN map[k].current_clicks + 1
                             ELSE map[k].current_clicks
      ]_vars

\* C13 witness: a capture_click has been accepted on a neutral tile without
\* completing the capture.
C13_Witness ==
    /\ last.ev = "capture_click"
    /\ \E k \in DOMAIN map :
         map[k].owner = "grey" /\ map[k].current_clicks = 1

\* C14 (as stated): a capture_click changes a tile's owner to team T only
\* when every click counted on the tile since its last ownership change was
\* made by team T.
C14_OwnProgress ==
    [][\A k \in DOMAIN map \cap DOMAIN map' :
         (last'.ev = "capture_click" /\ map'[k].owner # map[k].owner)
             => clickers[k] \subseteq {map'[k].owner}
      ]_vars

\* C15: the scores change only in a scoring tick that fires in Active phase,
\* which adds the income of the map as it is, and at a map (re)generation,
\* which sets both to 0; every other step leaves them unchanged.
C15_ScoreChanges ==
    [][scores' # scores =>
         \/ /\ last'.ev = "score_tick"
            /\ gameActive
            /\ scores'.red = scores.red + Gain(map, DOMAIN map, "red")
            /\ scores'.blue = scores.blue + Gain(map, DOMAIN map, "blue")
         \/ /\ last'.ev = "reset_timeout"
            /\ scores' = [red |-> 0, blue |-> 0]
            /\ map' = EmptyMap
      ]_vars

\* C15 witness: the reset after a game over has just put the scores, which a
\* scoring tick had raised to WIN_SCORE, back to 0.
C15_Witness ==
    /\ last.ev = "reset_timeout"
    /\ scores = [red |-> 0, blue |-> 0]
    /\ awaiting["reset_select"] = 1

\* Income of `team` counted tile by tile from the map.
Income(m, team) ==
    1000 * Cardinality({k \in DOMAIN m :
                           /\ m[k].owner = team
                           /\ HexDistance(k, <<0, 0>>) <= CENTER_BONUS_DIST})
    + 500 * Cardinality({k \in DOMAIN m :
                            /\ m[k].owner = team
                            /\ HexDistance(k, <<0, 0>>) > CENTER_BONUS_DIST})

\* C16: a scoring tick in Active phase adds to each team's score exactly 1000
\* for every tile it owns within CENTER_BONUS_DIST of the centre and 500 for
\* every other tile it owns, counted on the map as it is when the tick fires;
\* neutral tiles add nothing to either team.
C16_TickIncome ==
    [][(last'.ev = "score_tick" /\ gameActive) =>
         /\ scores'.red = scores.red + Income(map, "red")
         /\ scores'.blue = scores.blue + Income(map, "blue")
      ]_vars

\* C16 witness: a tick has paid red for the centre tile and one outer tile
\* and blue for one outer tile, with neutral tiles on the map.
C16_Witness ==
    /\ last.ev = "score_tick"
    /\ map[<<0, 0>>].owner = "red"
    /\ scores = [red |-> 1500, blue |-> 500]
    /\ \E k \in DOMAIN map : map[k].owner = "grey"

\* C17: in every reachable state, map regeneration included, the position
\* of every player who has been placed on the map names a tile of the map,
\* so that the tile lookup of an accepted capture_click succeeds.
C17_PositionsOnMap ==
    \A id \in DOMAIN players :
        players[id].status = "playing"
            => <<players[id].q, players[id].r>> \in DOMAIN map

\* C18: generating the map for radius R from a store without rows gives
\* exactly 3R^2 + 3R + 1 tiles, those with max(|q|, |r|, |q + r|) <= R, each
\* with progress 0, (-R, 0) red, (R, 0) blue and every other tile neutral;
\* for the configured radius it is the map FreshMap of the other
\* specifications.
C18_FreshGrid ==
    last.ev = "bases" =>
        LET R == radius
        IN /\ Cardinality(DOMAIN map) = 3 * R * R + 3 * R + 1
           /\ DOMAIN map = {k \in (-R..R) \X (-R..R) :
                               Max(Max(Abs(k[1]), Abs(k[2])),
                                   Abs(k[1] + k[2])) <= R}
           /\ \A k \in DOMAIN map :
                 /\ map[k].current_clicks = 0
                 /\ map[k].owner = IF k = <<-R, 0>> THEN "red"
                                   ELSE IF k = <<R, 0>> THEN "blue"
                                   ELSE "grey"
           /\ R = MAP_RADIUS => map = FreshMap

\* C18 witness: the map of the largest radius has been generated.
C18_Witness ==
    /\ last.ev = "bases"
    /\ radius = MaxRadius
    /\ map[<<0, 0>>].owner = "grey"
    /\ map[<<radius, 0>>].owner = "blue"

\* max(5, floor(25 - 1.5d)) and floor(1.7 * that), by the meaning of floor.
ClaimedNeutral(d) ==
    LET f == CHOOSE x \in -50..25 : 2 * x <= 50 - 3 * d /\ 50 - 3 * d < 2 * x + 2
    IN IF f < 5 THEN 5 ELSE f

ClaimedEnemy(d) ==
    LET n == ClaimedNeutral(d)
    IN CHOOSE x \in 0..50 : 10 * x <= 17 * n /\ 17 * n < 10 * x + 10

\* C19: the clicks required to capture a tile at distance d are
\* max(5, floor(25 - 1.5d)) when it is neutral and floor(1.7 * that) when the
\* other team owns it: a click captures exactly when the counter reaches
\* that number.  For d in 0..radius the number does not increase with d in
\* either class and is larger for an enemy tile than for a neutral one; it
\* is 25 and 42 at d = 0.
C19_RequiredClicks ==
    [][/\ \A d \in 0..radius :
            LET n == ClaimedNeutral(d)
                e == ClaimedEnemy(d)
            IN /\ Required(d, "grey") = n
               /\ Required(d, "red") = e
               /\ Required(d, "blue") = e
               /\ e > n
               /\ d < radius => /\ ClaimedNeutral(d + 1) <= n
                                /\ ClaimedEnemy(d + 1) <= e
               /\ d = 0 => (n = 25 /\ e = 42)
       /\ \A id \in DOMAIN players :
            LET k == <<players[id].q, players[id].r>>
                d == HexDistance(k, <<0, 0>>)
                req == IF map[k].owner = "grey" THEN ClaimedNeutral(d)
                       ELSE ClaimedEnemy(d)
            IN (AcceptedOn(id, k) /\ CaptureClick(id, 1)) =>
                   (map'[k].owner = players[id].team
                        <=> map[k].current_clicks + 1 >= req)
      ]_vars

\* C19 witness: the 42nd click on the centre tile, which blue owned, has
\* captured it.
C19_Witness ==
    /\ last.ev = "capture_click"
    /\ budget = MaxClicks - 42
    /\ store[<<0, 0>>] = "blue"
    /\ map[<<0, 0>>].owner = "red"
    /\ writeBacks = {<<<<0, 0>>, "red">>}

\* C20: from game_over until the reset has completed (the delete, the reset
\* timeout or the regeneration of the map is pending) no step starts a
\* countdown, makes the match Active or gives a player a team; a
\* request_join in that time starts no match on the old map and scores.
C20_NoMatchBeforeReset ==
    [][PendingResets > 0 =>
         /\ Len(countdowns') <= Len(countdowns)
         /\ gameActive' => gameActive
         /\ \A id \in DOMAIN players \cap DOMAIN players' :
              players'[id].team # players[id].team
                  => players'[id].team = "spectator"
      ]_vars

\* C21: the reset that follows a game_over completes, whether or not the
\* store calls succeed, in a state with the map regenerated, both scores 0
\* and the phase not Active, where reset_game is broadcast; after it the
\* phase becomes Active only by a countdown that completes.
C21_ResetCompletes ==
    [][/\ last'.emit = "reset_game" =>
            /\ DOMAIN map' = Grid
            /\ \A k \in DOMAIN map' : map'[k].current_clicks = 0
            /\ scores' = [red |-> 0, blue |-> 0]
            /\ ~gameActive'
       /\ (gameActive' /\ ~gameActive) =>
            (last'.ev = "countdown" /\ last'.emit = "GO!")
      ]_vars

\* C22: while the phase is Active, the team and the position of a player who
\* is playing change only in a move event of that player, which keeps the
\* team and takes the position exactly one hex step away; a request_join of
\* a playing player changes neither.
C22_OnlyOwnMoves ==
    [][gameActive =>
         \A id \in DOMAIN players \cap DOMAIN players' :
             LET p == players[id]
                 n == players'[id]
             IN (p.status = "playing"
                 /\ <<n.team, n.q, n.r>> # <<p.team, p.q, p.r>>) =>
                    /\ \E t \in Targets : Move(id, t[1], t[2])
                    /\ n.team = p.team
                    /\ HexDistance(<<p.q, p.r>>, <<n.q, n.r>>) = 1
      ]_vars

\* C23: in every state between two events the progress counter of each tile
\* is below the number of clicks its capture requires at the tile's distance
\* for the class of its present owner: max(5, floor(25 - 1.5d)) for a
\* neutral tile, floor(1.7 * that) for a tile a team owns.  (A counter that
\* is not positive is below every requirement, the least being 5.)
C23_BelowRequirement ==
    \A k \in DOMAIN map :
        map[k].current_clicks > 0 =>
            LET d == HexDistance(k, <<0, 0>>)
            IN map[k].current_clicks <
                   (IF map[k].owner = "grey" THEN ClaimedNeutral(d)
                    ELSE ClaimedEnemy(d))

\* C23 witness: 41 clicks are counted on the centre tile, which blue owns
\* and which the 42nd click will capture.
C23_Witness ==
    /\ last.ev = "capture_click"
    /\ map[<<0, 0>>].owner = "blue"
    /\ map[<<0, 0>>].current_clicks = 41
    /\ players[1].team = "red"
    /\ <<players[1].q, players[1].r>> = <<0, 0>>

====
